---- MODULE Spec2Model ----
(***************************************************************************)
(* Shift scheduling of a four-stage batch line (Dispensing, Granulation,   *)
(* Tableting, Coating): the per-stage integer programs, the aggregator     *)
(* that runs the four stages, and the two searches built on top of it.     *)
(*                                                                         *)
(* The integer-programming solver is a black box: given a model it answers *)
(* with a status and, when the model is feasible, with one of the          *)
(* assignments that minimise the objective.  Which minimiser it returns is *)
(* not specified, so it is a nondeterministic choice.                      *)
(*                                                                         *)
(* Objective weights are kept as integers, ten times the Python floats     *)
(* (0.1 becomes 1, 100.0 becomes 1000); scaling an objective by a positive *)
(* constant does not change its minimisers.                                *)
(***************************************************************************)
EXTENDS Integers, Sequences, FiniteSets, TLC

\* ------------------------------------------------------------------ bounds
\* stage solves are enumerated for 0 .. MaxBatches batches on 1 .. MaxDays days
MaxDays == 2
MaxBatches == 10
\* the searches are started on 1 .. MaxWorkdays days
MaxWorkdays == 365
\* with stage answers of kind "days": first horizons and feasibility thresholds
MaxInitial == 9
MaxFrom == 17
\* with stage answers of kind "free": the horizons of the throughput search
MaxProbeDays == 3
\* one long horizon: LongDays days and as many batches on one tablet press
LongDays == 231
\* stage solves with a staff buffer: 1 .. MaxBufferPercent percent, for
\* 0 .. MaxBufferedBatches batches on one day
MaxBufferPercent == 30
MaxBufferedBatches == 12
\* stage solves on two weeks
FortnightDays == 14
\* stage solves with other objective weights: 0 .. MaxWeightedBatches batches
MaxWeightedBatches == 4

\* --------------------------------------------------------- Python values
None == << >>
Some(r) == << r >>

PyInt(i) == [t |-> "int", v |-> i]
PyStr(s) == [t |-> "str", v |-> s]
\* a comparison that never finds a difference
PyNeNever(a, b) == FALSE

\* Python's != between values: an int and a str are never equal.
PyNe(a, b) == IF a.t # b.t THEN TRUE ELSE a.v # b.v

\* pulp status codes and their names (pulp.LpStatus)
LpStatusOptimal == 1
LpStatusInfeasible == 0 - 1
LpStatus(code) == IF code = LpStatusOptimal THEN "Optimal" ELSE "Infeasible"

\* math.ceil(a / b) for a >= 0, b > 0
CeilDiv(a, b) == (a + b - 1) \div b

\* ------------------------------------------------------ capacity catalog
Stages == {"dispensing", "granulation", "tableting", "coating"}
Shifts == {"M", "E", "N"}

AllToggles ==
  [use_p3030 : BOOLEAN, use_p3090i : BOOLEAN, use_ima : BOOLEAN,
   use_bosch : BOOLEAN, use_glatt : BOOLEAN]

AllOn ==
  [use_p3030 |-> TRUE, use_p3090i |-> TRUE, use_ima |-> TRUE,
   use_bosch |-> TRUE, use_glatt |-> TRUE]

\* a BOSCH coater that yields four batches a shift
BatchesPerShiftLargeBosch(r) ==
  CASE r = "Line"     -> 3
    [] r = "P3030"    -> 1
    [] r = "P3090i"   -> 2
    [] r = "IMA"      -> 1
    [] r = "Solution" -> 4
    [] r = "BOSCH"    -> 4
    [] r = "GLATT"    -> 2

\* batches one active shift of a resource produces
BatchesPerShift(r) ==
  CASE r = "Line"     -> 3
    [] r = "P3030"    -> 1
    [] r = "P3090i"   -> 2
    [] r = "IMA"      -> 1
    [] r = "Solution" -> 4
    [] r = "BOSCH"    -> 2
    [] r = "GLATT"    -> 2

\* people one active shift of a resource needs
PeoplePerShift(stage) ==
  CASE stage = "dispensing"  -> 6
    [] stage = "granulation" -> 6
    [] stage = "tableting"   -> 3
    [] stage = "coating"     -> 2

\* the resources of a stage that get decision variables (make_var)
Enabled(stage, tog) ==
  CASE stage = "dispensing"  -> {"Line"}
    [] stage = "granulation" -> {"Line"}
    [] stage = "tableting"   ->
         (IF tog.use_p3030 THEN {"P3030"} ELSE {})
         \cup (IF tog.use_p3090i THEN {"P3090i"} ELSE {})
         \cup (IF tog.use_ima THEN {"IMA"} ELSE {})
    [] stage = "coating"     ->
         {"Solution"}
         \cup (IF tog.use_bosch THEN {"BOSCH"} ELSE {})
         \cup (IF tog.use_glatt THEN {"GLATT"} ELSE {})

\* the binary activation variables of one day: (resource, shift)
Slots(stage, tog) == Enabled(stage, tog) \X Shifts

\* Each stage has one demand constraint, Coating has two.  Index 1 is the
\* DemandConstraint (SolutionDemand for Coating), index 2 is CoatingDemand.
DemandIndex(r) == IF r \in {"BOSCH", "GLATT"} THEN 2 ELSE 1


Demands(stage) == IF stage = "coating" THEN {1, 2} ELSE {1}

\* the weights with headcount for free
FreeStaffWeights ==
  [w_staff |-> 0, w_morning |-> 0, w_evening |-> 1, w_night |-> 20,
   w_weekend |-> 30, w_daysUsed |-> 10]

DefaultWeights ==
  [w_staff |-> 1000, w_morning |-> 0, w_evening |-> 1, w_night |-> 20,
   w_weekend |-> 30, w_daysUsed |-> 10]

\* ------------------------------------------------------------ arithmetic
RECURSIVE SumF(_, _)
SumF(f, S) ==
  IF S = {} THEN 0
  ELSE LET x == CHOOSE y \in S : TRUE IN f[x] + SumF(f, S \ {x})

SetMin(S) == CHOOSE x \in S : \A y \in S : x <= y
SetMax(S) == CHOOSE x \in S : \A y \in S : x >= y
Min2(a, b) == IF a <= b THEN a ELSE b

\* a function as an explicit table: the same function, evaluated once
Table(f) == f @@ << >>

\* value standing for "no assignment reaches this": above every real cost
Unreachable == 1000000000

\* --------------------------------------------- one day of the schedule
\* A day pattern is the set of activation variables of that day that are 1.
\* The summary of a pattern: active variables, active variables per shift,
\* batches per demand constraint.
PatternSummary(p) ==
  [acts |-> Cardinality(p),
   M    |-> Cardinality({x \in p : x[2] = "M"}),
   E    |-> Cardinality({x \in p : x[2] = "E"}),
   N    |-> Cardinality({x \in p : x[2] = "N"}),
   y    |-> << SumF([x \in p |-> BatchesPerShift(x[1])],
                    {x \in p : DemandIndex(x[1]) = 1}),
               SumF([x \in p |-> BatchesPerShift(x[1])],
                    {x \in p : DemandIndex(x[1]) = 2}) >>]

\* a week whose weekend falls on its days 0 and 6
WeekendDaysSundayFirst(num_workdays) ==
  {d \in 0 .. num_workdays - 1 : d % 7 \in {0, 6}}

\* weekend_days = set(d for d in range(num_workdays) if d % 7 in [5, 6])
weekend_days(num_workdays) ==
  {d \in 0 .. num_workdays - 1 : d % 7 \in {5, 6}}

\* ------------------------------------------------- the integer program
\* A model m is [stage, B, D, tog, w]: stage, batches_required,
\* num_workdays, machine toggles, objective weights.
\* An assignment sol is [act, staff, dayUsed]: act[d] is the day pattern of
\* day d, staff the value of staff_var, dayUsed[d] the value of dayUsed[d].
\* The constraints and the objective read a day only through the summary of
\* its pattern.

Info(m, p) == PatternSummary(p)

\* left-hand side of a demand constraint
total_batches(m, act, i) ==
  SumF([d \in 0 .. m.D - 1 |-> Info(m, act[d]).y[i]], 0 .. m.D - 1)

\* "lpSum(total_batches) >= batches_required", tot[i] the left-hand side of
\* demand constraint i
\* the demand constraints left out of the model
DemandMetDropped(m, tot) == TRUE

\* one demand for the solution batches and the coated batches together
DemandMetPooled(m, tot) == tot[1] + tot[2] >= m.B

DemandMet(m, tot) == \A i \in Demands(m.stage) : tot[i] >= m.B

DemandConstraint(m, act) ==
  DemandMet(m, << total_batches(m, act, 1), total_batches(m, act, 2) >>)

\* staff counted for the busiest shift of a day instead of the whole day
StaffDayBusiestShift(m, i) ==
  PeoplePerShift(m.stage) * SetMax({i.M, i.E, i.N})

\* right-hand side of the staff constraint of one day: shifts of a day add up
StaffDay(m, i) == PeoplePerShift(m.stage) * i.acts

StaffReq(m, sol) ==
  \A d \in 0 .. m.D - 1 : sol.staff >= StaffDay(m, Info(m, sol.act[d]))

\* dayUsed[d] >= each variable (Dispensing, Granulation): binding for the
\* variables that are 1;  dayUsed[d] >= all_shifts_d / 9.0 (Tableting, Coating)
\* the fraction taken as a whole number: dayUsed[d] >= all_shifts_d // 9
DayUsedLinkWholeNinths(m, i, u) ==
  IF m.stage \in {"dispensing", "granulation"}
  THEN u >= i.M /\ u >= i.E /\ u >= i.N
  ELSE u >= i.acts \div 9

\* Dispensing, Granulation: dayUsed[d] >= M_vars[d], >= E_vars[d], >= N_vars[d]
\* Tableting, Coating: dayUsed[d] >= all_shifts_d / 9.0
DayUsedLink(m, i, u) ==
  IF m.stage \in {"dispensing", "granulation"}
  THEN u >= i.M /\ u >= i.E /\ u >= i.N
  ELSE 9 * u >= i.acts

DayUsedConstraint(m, sol) ==
  \A d \in 0 .. m.D - 1 :
     DayUsedLink(m, Info(m, sol.act[d]), sol.dayUsed[d])

IsFeasible(m, sol) ==
  /\ DemandConstraint(m, sol.act)
  /\ StaffReq(m, sol)
  /\ DayUsedConstraint(m, sol)

\* the part of the objective that one day contributes
DayPenalty(m, i, u, weekend) ==
  m.w.w_morning * i.M + m.w.w_evening * i.E + m.w.w_night * i.N
  + (IF weekend THEN m.w.w_weekend * i.acts ELSE 0)
  + m.w.w_daysUsed * u

DayObjective(m, p, u, d) ==
  DayPenalty(m, Info(m, p), u, d \in weekend_days(m.D))

WeightedObjective(m, sol) ==
  m.w.w_staff * sol.staff
  + SumF([d \in 0 .. m.D - 1 |->
            DayObjective(m, sol.act[d], sol.dayUsed[d], d)], 0 .. m.D - 1)

\* ------------------------------------------------------------ the solver
\* The model is bounded below (all weights are >= 0), so the solver answers
\* Optimal exactly when some assignment is feasible.  The demand left-hand
\* sides grow with every activation and the other constraints can always be
\* met by a large staff_var and dayUsed = 1, so some assignment is feasible
\* exactly when the assignment with every activation variable at 1 is.
\* a solver that finds an optimum on a single day only and gives up on every
\* longer horizon
SolveStatusSingleDayOnly(m) ==
  LET full == PatternSummary(Slots(m.stage, m.tog)) IN
    IF m.D = 1 /\ DemandMet(m, << m.D * full.y[1], m.D * full.y[2] >>)
    THEN LpStatusOptimal ELSE LpStatusInfeasible

SolveStatus(m) ==
  LET full == PatternSummary(Slots(m.stage, m.tog)) IN
    IF DemandMet(m, << m.D * full.y[1], m.D * full.y[2] >>)
    THEN LpStatusOptimal ELSE LpStatusInfeasible

\* The minimisers are found day by day.  For a fixed value s of staff_var a
\* day may take every pattern the staff constraint allows; Progress is the
\* pair of demand left-hand sides reached so far, cut off at the demand.
DemandCap(m, i) == IF i \in Demands(m.stage) THEN m.B ELSE 0

Progress(m) == (0 .. DemandCap(m, 1)) \X (0 .. DemandCap(m, 2))

AdvanceTo(cap, st, y) ==
  << Min2(cap[1], st[1] + y[1]), Min2(cap[2], st[2] + y[2]) >>

Advance(m, st, y) ==
  AdvanceTo(<< DemandCap(m, 1), DemandCap(m, 2) >>, st, y)

\* the (pattern summary, dayUsed) pairs a day may take when staff_var = s
DayChoices(m, sums, s) ==
  {c \in sums \X {0, 1} : s >= StaffDay(m, c[1]) /\ DayUsedLink(m, c[1], c[2])}

\* what the choices of a day cost and yield: pairs << penalty, y >>, the
\* cheapest one for each yield
DayOptions(m, choices, weekend) ==
  LET all == {<< DayPenalty(m, c[1], c[2], weekend), c[1].y >> : c \in choices}
  IN  {o \in all : \A q \in all : q[2] = o[2] => q[1] >= o[1]}

\* Least penalty of the days d .. D-1 from each Progress.  CostToGo extends
\* acc = << table of day d, table of day d+1, ..., table of day D >> down to
\* day 0; each table is evaluated before the next one is started.
LastTable(m) ==
  Table([st \in Progress(m) |-> IF DemandMet(m, st) THEN 0 ELSE Unreachable])

RECURSIVE CostToGo(_, _, _, _, _, _)
CostToGo(prog, cap, wd, we, d, acc) ==
  IF d = 0 THEN acc
  ELSE LET next == acc[1]
           opts == IF (d - 1) % 7 \in {5, 6} THEN we ELSE wd
           this == Table([st \in prog |->
                     SetMin({Min2(Unreachable,
                                  o[1] + next[AdvanceTo(cap, st, o[2])]) :
                               o \in opts})])
       IN  IF this[<< 0, 0 >>] < 0 THEN << >>
           ELSE CostToGo(prog, cap, wd, we, d - 1, << this >> \o acc)

PenaltyTable(m, choices) ==
  LET wd == DayOptions(m, choices, FALSE)
      we == DayOptions(m, choices, TRUE)
  IN  CostToGo(Progress(m), << DemandCap(m, 1), DemandCap(m, 2) >>,
               wd, we, m.D, << LastTable(m) >>)

\* the values staff_var can take in a minimiser: the staff need of some day
StaffValues(m, sums) == {StaffDay(m, i) : i \in sums}

\* objective of the best assignment with staff_var = s, given its table
StaffTotal(m, s, T) ==
  IF T[1][<< 0, 0 >>] >= Unreachable THEN Unreachable
  ELSE m.w.w_staff * s + T[1][<< 0, 0 >>]

\* The penalty tables by value of staff_var, smallest value first.  Penalties
\* are >= 0, so a value whose staff cost alone exceeds the best objective
\* found so far cannot be a minimiser, nor can any larger value.
RECURSIVE StaffTables(_, _, _, _)
StaffTables(m, choices, todo, done) ==
  IF todo = {} THEN done
  ELSE LET s    == SetMin(todo)
           best == SetMin({Unreachable} \cup
                          {StaffTotal(m, x, done[x]) : x \in DOMAIN done})
       IN  IF m.w.w_staff * s > best THEN done
           ELSE StaffTables(m, choices, todo \ {s},
                            done @@ (s :> PenaltyTable(m, choices[s])))

\* Days of the same kind (two working days, two weekend days) can be swapped
\* in any assignment without changing feasibility, the objective or anything
\* the stage functions read from the solution.  Up to FullEnumerationDays
\* days the solver may return every minimiser; on longer horizons it returns
\* one minimiser of each class of assignments equal up to such swaps, the one
\* whose day choices do not increase within a kind of day.
FullEnumerationDays == 7

ChoiceKey(c) ==
  (((((c[1].y[1] * 64 + c[1].y[2]) * 16 + c[1].acts) * 4 + c[1].M) * 4
     + c[1].E) * 4 + c[1].N) * 2 + c[2]

TopKey == 1000000000

\* Every sequence of day choices that reaches the least penalty.  partial
\* holds the choices of days 0 .. d-1 with the Progress they reach and
\* last = << key of the last working day, key of the last weekend day >>.
RECURSIVE BestDays(_, _, _, _, _)
BestDays(m, choices, T, d, partial) ==
  IF d = m.D THEN {p.days : p \in partial}
  ELSE LET kind == IF d % 7 \in {5, 6} THEN 2 ELSE 1
           ext  == UNION {
                     {[days |-> Append(p.days, c),
                       st   |-> Advance(m, p.st, c[1].y),
                       last |-> IF m.D <= FullEnumerationDays THEN p.last
                                ELSE [p.last EXCEPT ![kind] = ChoiceKey(c)]] :
                        c \in {x \in choices :
                                 /\ ChoiceKey(x) <= p.last[kind]
                                 /\ DayPenalty(m, x[1], x[2], kind = 2)
                                      + T[d + 2][Advance(m, p.st, x[1].y)]
                                    = T[d + 1][p.st]}} :
                     p \in partial}
       IN  IF Cardinality(ext) = 0 THEN {}
           ELSE BestDays(m, choices, T, d + 1, ext)

\* the schedules whose days have the given summaries; pats pairs every
\* pattern with its summary, partial holds the patterns of days 1 .. d-1
RECURSIVE Schedules(_, _, _, _)
Schedules(pats, days, d, partial) ==
  IF d > Len(days) THEN partial
  ELSE LET ext == {Append(p, x[1]) :
                     p \in partial, x \in {q \in pats : q[2] = days[d][1]}}
       IN  IF Cardinality(ext) = 0 THEN {}
           ELSE Schedules(pats, days, d + 1, ext)

\* all minimisers of the model (empty when the model is infeasible)
OptimalSolutions(m) ==
  LET pats    == {<< p, Info(m, p) >> : p \in SUBSET Slots(m.stage, m.tog)}
      sums    == {x[2] : x \in pats}
      staffs  == StaffValues(m, sums)
      choices == Table([s \in staffs |-> DayChoices(m, sums, s)])
      table   == StaffTables(m, choices, staffs, << >>)
      total   == Table([s \in DOMAIN table |-> StaffTotal(m, s, table[s])])
      best    == SetMin({total[s] : s \in DOMAIN table})
      first   == {[days |-> << >>, st |-> << 0, 0 >>,
                   last |-> << TopKey, TopKey >>]}
  IN  IF best >= Unreachable THEN {}
      ELSE UNION {
             UNION {
               {[act     |-> [d \in 0 .. m.D - 1 |-> sched[d + 1]],
                 staff   |-> s,
                 dayUsed |-> [d \in 0 .. m.D - 1 |-> days[d + 1][2]]] :
                  sched \in Schedules(pats, days, 1, {<< >>})} :
               days \in BestDays(m, choices[s], table[s], 0, first)} :
             s \in {x \in DOMAIN table : total[x] = best} }

\* ---------------------------------------------------- the stage functions
\* The arguments of a stage function:
\*   [batches_required, num_workdays, buffer_ratio, w, tog]
\* buffer_ratio is kept in whole percent.  A stage function yields the set of
\* its possible outcomes [ret, sol, solved]: ret is the value returned (None
\* or a Stage Result), sol the solver's assignment behind it, solved tells
\* whether model.solve was called.
StageArgs(b, d, tog) ==
  [batches_required |-> b, num_workdays |-> d, buffer_ratio |-> 0,
   w |-> DefaultWeights, tog |-> tog]

\* a model whose demand grows with the buffer
StageModelBufferedDemand(stage, a) ==
  [stage |-> stage, B |-> a.batches_required + a.buffer_ratio,
   D |-> a.num_workdays, tog |-> a.tog, w |-> a.w]

StageModel(stage, a) ==
  [stage |-> stage, B |-> a.batches_required, D |-> a.num_workdays,
   tog |-> a.tog, w |-> a.w]

\* a None that is always preceded by a solve
NoResultAfterSolve(solved) == [ret |-> None, sol |-> None, solved |-> TRUE]

NoResult(solved) == [ret |-> None, sol |-> None, solved |-> solved]

\* sum(int(X_vars[d].varValue) for d in range(num_workdays))
var_sum(a, sol, r, sh) ==
  Cardinality({d \in 0 .. a.num_workdays - 1 : << r, sh >> \in sol.act[d]})

used_days_count(a, sol) == SumF(sol.dayUsed, 0 .. a.num_workdays - 1)

\* ---------------------------------------------------- Python floats
\* A float above 0 is [exp, bits]: bits is the significand of an IEEE-754
\* double, most significant bit first with bits[1] = 1, and the value is
\* bits[1].bits[2]bits[3]... (binary) times 2^exp.
Precision == 53

Zeros(n) == [i \in 1 .. n |-> 0]

\* the significand plus one unit in its last place
NextUp(bits, exp) ==
  IF \A i \in 1 .. Len(bits) : bits[i] = 1
  THEN [exp |-> exp + 1, bits |-> << 1 >> \o Zeros(Len(bits) - 1)]
  ELSE LET k == SetMax({i \in 1 .. Len(bits) : bits[i] = 0})
       IN  [exp  |-> exp,
            bits |-> [i \in 1 .. Len(bits) |->
                        IF i < k THEN bits[i] ELSE IF i = k THEN 1 ELSE 0]]

\* Round to nearest, ties to even: the double nearest to the number whose
\* binary digits are bits (bits[1] = 1, more than Precision of them) followed,
\* when sticky, by further digits that are not all 0.
RoundNearestEven(bits, exp, sticky) ==
  LET keep  == SubSeq(bits, 1, Precision)
      guard == bits[Precision + 1]
      rest  == sticky \/ \E i \in Precision + 2 .. Len(bits) : bits[i] = 1
  IN  IF guard = 1 /\ (rest \/ keep[Precision] = 1)
      THEN NextUp(keep, exp)
      ELSE [exp |-> exp, bits |-> keep]

\* n more binary digits of rem / b, for 0 <= rem < b; every digit is
\* evaluated before the next one is started
RECURSIVE DivBits(_, _, _, _)
DivBits(rem, b, n, acc) ==
  IF n = 0 THEN [bits |-> acc, rem |-> rem]
  ELSE LET twice == 2 * rem
           bit   == IF twice >= b THEN 1 ELSE 0
           left  == twice - bit * b
           more  == Append(acc, bit)
       IN  IF left < 0 \/ Len(more) = 0 THEN [bits |-> more, rem |-> left]
           ELSE DivBits(left, b, n - 1, more)

\* the number of doublings that bring a to b or above, for 0 < a < b
RECURSIVE Doublings(_, _)
Doublings(a, b) == IF a >= b THEN 0 ELSE 1 + Doublings(2 * a, b)

\* the float a / b for integers 0 < a < b: the percentage p / 100, which is
\* also the value of the literal 0.pp
FloatQuotient(a, b) ==
  LET j == Doublings(a, b)
      q == DivBits(a * 2 ^ j - b, b, Precision + 1, << 1 >>)
  IN  RoundNearestEven(q.bits, 0 - j, q.rem # 0)

\* the float 1 + r for a float 0 < r < 1
FloatOnePlus(r) ==
  RoundNearestEven(<< 1 >> \o Zeros(0 - r.exp - 1) \o r.bits, 0, FALSE)

\* the binary digits of the integer n, most significant first (none for 0)
RECURSIVE IntBits(_)
IntBits(n) == IF n = 0 THEN << >> ELSE Append(IntBits(n \div 2), n % 2)

\* the binary digits of n times the integer with digits bits, from digit i
\* downwards, acc holding the digits below digit i
RECURSIVE MulBits(_, _, _, _, _)
MulBits(bits, n, i, carry, acc) ==
  IF i = 0 THEN IntBits(carry) \o acc
  ELSE LET v    == n * bits[i] + carry
           more == << v % 2 >> \o acc
       IN  IF v < 0 \/ Len(more) = 0 THEN more
           ELSE MulBits(bits, n, i - 1, v \div 2, more)

\* the float n * s for an integer n > 0 and a float s
FloatTimes(n, s) ==
  LET product == MulBits(s.bits, n, Len(s.bits), 0, << >>)
  IN  RoundNearestEven(product \o << 0 >>,
                       s.exp + Len(product) - Len(s.bits), FALSE)

\* the value of binary digits as an integer
RECURSIVE BitsValue(_)
BitsValue(bits) ==
  IF bits = << >> THEN 0
  ELSE 2 * BitsValue(SubSeq(bits, 1, Len(bits) - 1)) + bits[Len(bits)]

\* math.ceil of a float of at least 1
FloatCeil(x) ==
  LET whole == BitsValue(SubSeq(x.bits, 1, x.exp + 1))
  IN  IF \E i \in x.exp + 2 .. Len(x.bits) : x.bits[i] = 1
      THEN whole + 1 ELSE whole

\* the buffered headcount rounded down instead of up
StaffWithBufferRoundedDown(min_staff, buffer_ratio) ==
  (min_staff * (100 + buffer_ratio)) \div 100

\* the buffered headcount computed in exact arithmetic
ExactStaffWithBuffer(min_staff, buffer_ratio) ==
  CeilDiv(min_staff * (100 + buffer_ratio), 100)

\* math.ceil(min_staff * (1 + buffer_ratio)); buffer_ratio is given in whole
\* percent and stands for the float p / 100.  0 * x is 0.0 and 1 + 0.0 is
\* 1.0, both exact.
staff_with_buffer(min_staff, buffer_ratio) ==
  IF min_staff = 0 THEN 0
  ELSE IF buffer_ratio = 0 THEN min_staff
  ELSE FloatCeil(FloatTimes(min_staff, FloatOnePlus(FloatQuotient(buffer_ratio, 100))))

\* the dict returned by optimize_dispensing and optimize_granulation
\* (pct_demand_completed, a float derived from total_batches_produced, is
\* left out)
LineResult(a, sol, solver_status) ==
  LET morning_days == var_sum(a, sol, "Line", "M")
      evening_days == var_sum(a, sol, "Line", "E")
      night_days   == var_sum(a, sol, "Line", "N")
  IN  [morning_shifts         |-> morning_days,
       evening_shifts         |-> evening_days,
       night_shifts           |-> night_days,
       total_batches_produced |-> 3 * (morning_days + evening_days + night_days),
       min_staff_required     |-> sol.staff,
       staff_with_buffer      |-> staff_with_buffer(sol.staff, a.buffer_ratio),
       days_used              |-> used_days_count(a, sol),
       num_workdays_horizon   |-> a.num_workdays,
       solver_status          |-> solver_status]

\* the outcome of a stage function that returns the dict r built from sol
Returned(r, sol) == [ret |-> Some(r), sol |-> Some(sol), solved |-> TRUE]

\* a Dispensing that reads the name of the status and refuses a demand of 0
DispensingRefusesZeroDemand(a) ==
  LET max_daily_batches == 9
      m == StageModel("dispensing", a)
      solver_status == PyStr(LpStatus(SolveStatus(m)))
  IN  IF max_daily_batches * a.num_workdays < a.batches_required
      THEN {NoResult(FALSE)}
      ELSE IF a.batches_required = 0
      THEN {NoResult(TRUE)}
      ELSE {Returned(LineResult(a, sol, solver_status), sol) :
                 sol \in OptimalSolutions(m)}

\* solver_status is what model.solve returns, pulp's integer status code,
\* and is compared with the string 'Optimal'
optimize_dispensing(a) ==
  LET max_daily_batches == 9
      m == StageModel("dispensing", a)
      solver_status == PyInt(SolveStatus(m))
  IN  IF max_daily_batches * a.num_workdays < a.batches_required
      THEN {NoResult(FALSE)}
      ELSE IF PyNe(solver_status, PyStr("Optimal"))
      THEN {NoResult(TRUE)}
      ELSE {Returned(LineResult(a, sol, solver_status), sol) :
                 sol \in OptimalSolutions(m)}

\* solver_status is pulp.LpStatus[model.status], the name of the status
optimize_granulation(a) ==
  LET max_daily_batches == 9
      m == StageModel("granulation", a)
      solver_status == PyStr(LpStatus(SolveStatus(m)))
  IN  IF max_daily_batches * a.num_workdays < a.batches_required
      THEN {NoResult(FALSE)}
      ELSE IF PyNe(solver_status, PyStr("Optimal"))
      THEN {NoResult(TRUE)}
      ELSE {Returned(LineResult(a, sol, solver_status), sol) :
                 sol \in OptimalSolutions(m)}

TabMachines == {"P3030", "P3090i", "IMA"}

\* the per-machine dicts of the Tableting and Coating results: the count of
\* an enabled machine, 0 for a disabled one
ShiftDict(a, sol, stage, machines, sh) ==
  [r \in machines |->
     IF r \in Enabled(stage, a.tog) THEN var_sum(a, sol, r, sh) ELSE 0]

TabResult(a, sol, solver_status) ==
  LET m == StageModel("tableting", a)
  IN  [machines_used          |-> [P3030  |-> a.tog.use_p3030,
                                   P3090i |-> a.tog.use_p3090i,
                                   IMA    |-> a.tog.use_ima],
       morning_shifts         |-> ShiftDict(a, sol, "tableting", TabMachines, "M"),
       evening_shifts         |-> ShiftDict(a, sol, "tableting", TabMachines, "E"),
       night_shifts           |-> ShiftDict(a, sol, "tableting", TabMachines, "N"),
       total_batches_produced |-> total_batches(m, sol.act, 1),
       min_staff_required     |-> sol.staff,
       staff_with_buffer      |-> staff_with_buffer(sol.staff, a.buffer_ratio),
       days_used              |-> used_days_count(a, sol),
       num_workdays_horizon   |-> a.num_workdays,
       solver_status          |-> solver_status]

\* Tableting without the check for an enabled machine
TabletingWithoutMachineCheck(a) ==
  LET machine_output ==
        (IF a.tog.use_p3030 THEN 1 ELSE 0) + (IF a.tog.use_p3090i THEN 2 ELSE 0)
        + (IF a.tog.use_ima THEN 1 ELSE 0)
      max_daily_batches == machine_output * 3
      m == StageModel("tableting", a)
      solver_status == PyStr(LpStatus(SolveStatus(m)))
  IN  IF max_daily_batches * a.num_workdays < a.batches_required
      THEN {NoResult(FALSE)}
      ELSE IF PyNe(solver_status, PyStr("Optimal"))
      THEN {NoResult(TRUE)}
      ELSE {Returned(TabResult(a, sol, solver_status), sol) :
                 sol \in OptimalSolutions(m)}

optimize_tableting(a) ==
  LET machine_output ==
        (IF a.tog.use_p3030 THEN 1 ELSE 0) + (IF a.tog.use_p3090i THEN 2 ELSE 0)
        + (IF a.tog.use_ima THEN 1 ELSE 0)
      max_daily_batches == machine_output * 3
      m == StageModel("tableting", a)
      solver_status == PyStr(LpStatus(SolveStatus(m)))
  IN  IF max_daily_batches = 0
      THEN {NoResult(FALSE)}
      ELSE IF max_daily_batches * a.num_workdays < a.batches_required
      THEN {NoResult(FALSE)}
      ELSE IF PyNe(solver_status, PyStr("Optimal"))
      THEN {NoResult(TRUE)}
      ELSE {Returned(TabResult(a, sol, solver_status), sol) :
                 sol \in OptimalSolutions(m)}

CoatResources == {"Solution", "BOSCH", "GLATT"}

CoatResult(a, sol, solver_status) ==
  LET m == StageModel("coating", a)
      total_solution_produced == total_batches(m, sol.act, 1)
      total_coating_produced  == total_batches(m, sol.act, 2)
  IN  [machines_used           |-> [BOSCH |-> a.tog.use_bosch,
                                    GLATT |-> a.tog.use_glatt],
       morning_shifts          |-> ShiftDict(a, sol, "coating", CoatResources, "M"),
       evening_shifts          |-> ShiftDict(a, sol, "coating", CoatResources, "E"),
       night_shifts            |-> ShiftDict(a, sol, "coating", CoatResources, "N"),
       total_solution_produced |-> total_solution_produced,
       total_coating_produced  |-> total_coating_produced,
       final_batches_count     |-> Min2(total_solution_produced,
                                        total_coating_produced),
       min_staff_required      |-> sol.staff,
       staff_with_buffer       |-> staff_with_buffer(sol.staff, a.buffer_ratio),
       days_used               |-> used_days_count(a, sol),
       num_workdays_horizon    |-> a.num_workdays,
       solver_status           |-> solver_status]

optimize_coating(a) ==
  LET max_daily_solution == 12
      coating_machines_used ==
        (IF a.tog.use_bosch THEN 1 ELSE 0) + (IF a.tog.use_glatt THEN 1 ELSE 0)
      max_daily_coating == 2 * coating_machines_used * 3
      m == StageModel("coating", a)
      solver_status == PyStr(LpStatus(SolveStatus(m)))
  IN  IF coating_machines_used = 0
      THEN {NoResult(FALSE)}
      ELSE IF max_daily_solution * a.num_workdays < a.batches_required
      THEN {NoResult(FALSE)}
      ELSE IF max_daily_coating * a.num_workdays < a.batches_required
      THEN {NoResult(FALSE)}
      ELSE IF PyNe(solver_status, PyStr("Optimal"))
      THEN {NoResult(TRUE)}
      ELSE {Returned(CoatResult(a, sol, solver_status), sol) :
                 sol \in OptimalSolutions(m)}

\* ------------------------------------------------------ stage answers
\* oracle tells how the stage solves answer:
\*   kind "solver": the stage functions above;
\*   kind "days":   stage oracle.stage is infeasible on fewer than oracle.from
\*                  days and feasible otherwise, every other stage is feasible;
\*   kind "free":   stage oracle.stage answers either way on every call.
\*   kind "used":   every stage returns a result; stage oracle.stage reports
\*                  days_used = min(oracle.from, num_workdays), the others
\*                  report the whole horizon.
\* These stand for every behaviour a stage function can have towards its
\* caller: it returns None or a Stage Result, with days_used anywhere in the
\* horizon.
SolverOracle == [kind |-> "solver", stage |-> "dispensing", from |-> 0]

AnyResult(stage, a) ==
  [total_batches_produced |-> a.batches_required,
   min_staff_required     |-> PeoplePerShift(stage),
   staff_with_buffer      |-> PeoplePerShift(stage),
   days_used              |-> a.num_workdays,
   num_workdays_horizon   |-> a.num_workdays,
   solver_status          |-> PyStr("Optimal")]

AnyStage(orc, stage, a) ==
  LET some == [ret |-> Some(AnyResult(stage, a)), sol |-> None, solved |-> TRUE]
      used == [AnyResult(stage, a) EXCEPT
                 !.days_used = Min2(orc.from, a.num_workdays)]
  IN  IF stage # orc.stage THEN {some}
      ELSE IF orc.kind = "free" THEN {NoResult(TRUE), some}
      ELSE IF orc.kind = "used"
      THEN {[ret |-> Some(used), sol |-> None, solved |-> TRUE]}
      ELSE IF a.num_workdays < orc.from THEN {NoResult(TRUE)}
      ELSE {some}

StageSolve(orc, stage, a) ==
  IF orc.kind # "solver" THEN AnyStage(orc, stage, a)
  ELSE CASE stage = "dispensing"  -> optimize_dispensing(a)
         [] stage = "granulation" -> optimize_granulation(a)
         [] stage = "tableting"   -> optimize_tableting(a)
         [] stage = "coating"     -> optimize_coating(a)

\* ------------------------------------------------------- the aggregator
\* The arguments of optimize_osd_schedule:
\*   [req, num_workdays, buffer_ratio, w, tog], req the demand of each stage
\* (disp_batches_req, gran_batches_req, tab_batches_req, coat_batches_req).
OsdArgs(req, d, tog) ==
  [req |-> req, num_workdays |-> d, buffer_ratio |-> 0, w |-> DefaultWeights,
   tog |-> tog]

SameDemand(b) == [st \in Stages |-> b]

\* Tableting run before Granulation
StageOrderSwapped == << "dispensing", "tableting", "granulation", "coating" >>

\* the order in which optimize_osd_schedule runs the stages
StageOrder == << "dispensing", "granulation", "tableting", "coating" >>

StageCallArgs(a, stage) ==
  [batches_required |-> a.req[stage], num_workdays |-> a.num_workdays,
   buffer_ratio |-> a.buffer_ratio, w |-> a.w, tog |-> a.tog]

ResultOf(done, stage) ==
  done[CHOOSE i \in 1 .. Len(done) : done[i].stage = stage].result

\* the sums taken over the first three stages only
CombinedWithoutCoatingStaff(done) ==
  [dispensing  |-> ResultOf(done, "dispensing"),
   granulation |-> ResultOf(done, "granulation"),
   tableting   |-> ResultOf(done, "tableting"),
   coating     |-> ResultOf(done, "coating"),
   total_min_staff_summed |->
     ResultOf(done, "dispensing").min_staff_required
     + ResultOf(done, "granulation").min_staff_required
     + ResultOf(done, "tableting").min_staff_required,
   total_staff_with_buffer_summed |->
     ResultOf(done, "dispensing").staff_with_buffer
     + ResultOf(done, "granulation").staff_with_buffer
     + ResultOf(done, "tableting").staff_with_buffer]

combined_results(done) ==
  [dispensing  |-> ResultOf(done, "dispensing"),
   granulation |-> ResultOf(done, "granulation"),
   tableting   |-> ResultOf(done, "tableting"),
   coating     |-> ResultOf(done, "coating"),
   total_min_staff_summed |->
     ResultOf(done, "dispensing").min_staff_required
     + ResultOf(done, "granulation").min_staff_required
     + ResultOf(done, "tableting").min_staff_required
     + ResultOf(done, "coating").min_staff_required,
   total_staff_with_buffer_summed |->
     ResultOf(done, "dispensing").staff_with_buffer
     + ResultOf(done, "granulation").staff_with_buffer
     + ResultOf(done, "tableting").staff_with_buffer
     + ResultOf(done, "coating").staff_with_buffer]

CallsOf(done) == [i \in 1 .. Len(done) |-> [stage |-> done[i].stage, ok |-> TRUE]]

\* Stage i of StageOrder and the stages after it, given the results done of
\* the stages before it.  The outcomes are [ret, calls]: ret is the value
\* returned (None or the Combined Result), calls lists the stage functions
\* invoked, in order, with whether each returned a result.
RECURSIVE RunStages(_, _, _, _)
RunStages(orc, a, i, done) ==
  IF i > Len(StageOrder)
  THEN {[ret |-> Some(combined_results(done)), calls |-> CallsOf(done)]}
  ELSE LET stage == StageOrder[i] IN
       UNION {
         IF o.ret = None
         THEN {[ret   |-> None,
                calls |-> Append(CallsOf(done), [stage |-> stage, ok |-> FALSE])]}
         ELSE RunStages(orc, a, i + 1,
                        Append(done, [stage |-> stage, result |-> o.ret[1]])) :
         o \in StageSolve(orc, stage, StageCallArgs(a, stage)) }

optimize_osd_schedule(orc, a) == RunStages(orc, a, 1, << >>)

\* ----------------------------------------------------------- the searches
\* a ceiling one step later
HorizonCeilingLater == 365 + 7

\* while result is None and current_days <= 365
HorizonCeiling == 365
\* a step of six days
HorizonStepShorter == 7 - 1

\* current_days += 7
HorizonStep == 7
\* upper_bound = num_workdays * 27
BatchesPerDayBound == 27
\* max_iterations: int = 50
max_iterations == 50

\* the loop going on after a feasible horizon
KeepSearchingPastResult(r, days) == days <= HorizonCeiling

\* while result is None and current_days <= 365
KeepSearching(r, days) == r = None /\ days <= HorizonCeiling

\* while lower_bound <= upper_bound and iteration < max_iterations
KeepProbing(lower, upper, it) == lower <= upper /\ it < max_iterations

\* the days Dispensing used, without the offsets of the later stages
TotalDaysOfDispensingOnly(result) == result.dispensing.days_used

\* max(disp_days, disp_days + 1, disp_days + 2, disp_days + 3)
total_days_needed(result) ==
  LET disp_days == result.dispensing.days_used
  IN  SetMax({disp_days, disp_days + 1, disp_days + 2, disp_days + 3})

\* the bounds after a probe of current_batches
\* the probed count kept as the lower bound
FeasibleLowerKept(current_batches) == current_batches

FeasibleLower(current_batches) == current_batches + 1
\* the probed count kept in the interval
InfeasibleUpperKept(current_batches) == current_batches

InfeasibleUpper(current_batches) == current_batches - 1

\* ------------------------------------------------------------- the state
VARIABLES
  call,                  \* the entry point called: [fn, args]
  oracle,                \* how the stage solves answer
  pc,                    \* "called", "loop" (inside a search loop) or "done"
  returned,              \* the value the entry point returned, once pc = "done"
  solution,              \* the solver's assignment behind a returned Stage Result
  solved,                \* whether a stage function called model.solve
  stage_calls,           \* stage functions the latest Aggregator call invoked
  osd_calls,             \* Aggregator calls made so far: [batches, num_workdays, ok]
  result,                \* local variable result of the searches
  current_days,          \* local variable of optimize_osd_schedule_with_total
  lower_bound,           \* local variables of optimize_max_batches
  upper_bound,
  iteration,
  current_batches,
  max_feasible_batches,
  max_feasible_result

vars ==
  << call, oracle, pc, returned, solution, solved, stage_calls, osd_calls,
     result, current_days, lower_bound, upper_bound, iteration,
     current_batches, max_feasible_batches, max_feasible_result >>

stage_vars == << returned, solution, solved >>
horizon_vars == << current_days >>
max_vars ==
  << lower_bound, upper_bound, iteration, current_batches,
     max_feasible_batches, max_feasible_result >>

\* toggles that matter to one stage, the others left on
TogglesOf(stage) ==
  CASE stage = "tableting" -> {t \in AllToggles : t.use_bosch /\ t.use_glatt}
    [] stage = "coating"   ->
         {t \in AllToggles : t.use_p3030 /\ t.use_p3090i /\ t.use_ima}
    [] OTHER               -> {AllOn}

StageFn(stage) ==
  CASE stage = "dispensing"  -> "optimize_dispensing"
    [] stage = "granulation" -> "optimize_granulation"
    [] stage = "tableting"   -> "optimize_tableting"
    [] stage = "coating"     -> "optimize_coating"

StageCalls(stage) ==
  {[fn |-> StageFn(stage), args |-> StageArgs(b, d, tog)] :
     b \in 0 .. MaxBatches, d \in 1 .. MaxDays, tog \in TogglesOf(stage)}

SearchArgs(b, d, tog) ==
  [batches |-> b, num_workdays |-> d, buffer_ratio |-> 0,
   w |-> DefaultWeights, tog |-> tog]

\* the state in which an entry point has just been called
Called(c, orc) ==
  /\ call = c
  /\ oracle = orc
  /\ pc = "called"
  /\ returned = None
  /\ solution = None
  /\ solved = FALSE
  /\ stage_calls = << >>
  /\ osd_calls = << >>
  /\ result = None
  /\ current_days = 0
  /\ lower_bound = 0
  /\ upper_bound = 0
  /\ iteration = 0
  /\ current_batches = 0
  /\ max_feasible_batches = 0
  /\ max_feasible_result = None

InitStage == \E st \in Stages : \E c \in StageCalls(st) : Called(c, SolverOracle)

InitOsd ==
  \E b \in {0, 1, MaxBatches}, d \in 1 .. MaxDays :
     Called([fn |-> "optimize_osd_schedule",
             args |-> OsdArgs(SameDemand(b), d, AllOn)], SolverOracle)

\* a demand Dispensing cannot meet on any horizon the search tries
TooManyBatches == 9 * (HorizonCeiling + HorizonStep) + 1

InitHorizon ==
  \E b \in {1, MaxBatches, TooManyBatches}, d \in 1 .. MaxWorkdays :
     Called([fn |-> "optimize_osd_schedule_with_total",
             args |-> SearchArgs(b, d, AllOn)], SolverOracle)

InitMax ==
  \E d \in 1 .. MaxWorkdays :
     Called([fn |-> "optimize_max_batches",
             args |-> SearchArgs(0, d, AllOn)], SolverOracle)

\* stage calls with a staff buffer, every machine enabled
InitBuffered ==
  \E st \in Stages, b \in 0 .. MaxBufferedBatches, p \in 1 .. MaxBufferPercent :
     Called([fn   |-> StageFn(st),
             args |-> [StageArgs(b, 1, AllOn) EXCEPT !.buffer_ratio = p]],
            SolverOracle)

\* objective weights other than the defaults, all non-negative: no weight on
\* the days used; and a small weight on headcount with nights for free
OtherWeights ==
  {[DefaultWeights EXCEPT !.w_daysUsed = 0],
   [w_staff |-> 10, w_morning |-> 20, w_evening |-> 1, w_night |-> 0,
    w_weekend |-> 0, w_daysUsed |-> 50]}

\* stage calls with other weights, every machine enabled
InitWeighted ==
  \E st \in Stages, b \in 0 .. MaxWeightedBatches, d \in 1 .. MaxDays,
     w \in OtherWeights :
     Called([fn   |-> StageFn(st),
             args |-> [StageArgs(b, d, AllOn) EXCEPT !.w = w]], SolverOracle)

\* the Aggregator and the searches with a buffer and with other weights
InitSearchWeighted ==
  \E fn \in {"optimize_osd_schedule", "optimize_osd_schedule_with_total",
              "optimize_max_batches"},
     b \in {0, 1}, d \in 1 .. MaxDays, p \in {0, MaxBufferPercent},
     w \in OtherWeights :
     Called([fn   |-> fn,
             args |-> IF fn = "optimize_osd_schedule"
                      THEN [OsdArgs(SameDemand(b), d, AllOn) EXCEPT
                              !.buffer_ratio = p, !.w = w]
                      ELSE [SearchArgs(b, d, AllOn) EXCEPT
                              !.buffer_ratio = p, !.w = w]],
            SolverOracle)

Init ==
  \/ InitStage
  \/ InitOsd
  \/ InitHorizon
  \/ InitMax
  \/ InitBuffered
  \/ InitWeighted
  \/ InitSearchWeighted

\* --------------------------------------------------------- stage actions
StageCall(fn, outcomes) ==
  /\ pc = "called"
  /\ call.fn = fn
  /\ \E o \in outcomes :
       /\ returned' = o.ret
       /\ solution' = o.sol
       /\ solved' = o.solved
  /\ pc' = "done"
  /\ UNCHANGED << call, oracle, stage_calls, osd_calls, result >>
  /\ UNCHANGED horizon_vars
  /\ UNCHANGED max_vars

DispensingCall == StageCall("optimize_dispensing", optimize_dispensing(call.args))
GranulationCall == StageCall("optimize_granulation", optimize_granulation(call.args))
TabletingCall == StageCall("optimize_tableting", optimize_tableting(call.args))
CoatingCall == StageCall("optimize_coating", optimize_coating(call.args))

\* ------------------------------------------------------ aggregator action
OsdCall ==
  /\ pc = "called"
  /\ call.fn = "optimize_osd_schedule"
  /\ \E out \in optimize_osd_schedule(oracle, call.args) :
       /\ returned' = out.ret
       /\ stage_calls' = out.calls
  /\ pc' = "done"
  /\ UNCHANGED << call, oracle, solution, solved, osd_calls, result >>
  /\ UNCHANGED horizon_vars
  /\ UNCHANGED max_vars

\* the arguments a search hands to optimize_osd_schedule: its own buffer,
\* weights and toggles, the demand b on every stage, d days
ProbeArgs(b, d) ==
  [OsdArgs(SameDemand(b), d, call.args.tog) EXCEPT
     !.buffer_ratio = call.args.buffer_ratio, !.w = call.args.w]

\* ------------------------------------------- optimize_osd_schedule_with_total
\* one call of optimize_osd_schedule by a search, with demand b on every
\* stage and a horizon of d days
Probe(b, d) ==
  \E out \in optimize_osd_schedule(oracle, ProbeArgs(b, d)) :
     /\ result' = out.ret
     /\ stage_calls' = out.calls
     /\ osd_calls' = Append(osd_calls, [batches |-> b, num_workdays |-> d,
                                        ok |-> out.ret # None])

\* the first try, with initial_workdays
HorizonFirst ==
  /\ pc = "called"
  /\ call.fn = "optimize_osd_schedule_with_total"
  /\ Probe(call.args.batches, call.args.num_workdays)
  /\ current_days' = call.args.num_workdays
  /\ pc' = "loop"
  /\ UNCHANGED << call, oracle >>
  /\ UNCHANGED stage_vars
  /\ UNCHANGED max_vars

\* one pass of the while loop
HorizonRetry ==
  /\ pc = "loop"
  /\ call.fn = "optimize_osd_schedule_with_total"
  /\ KeepSearching(result, current_days)
  /\ current_days' = current_days + HorizonStep
  /\ Probe(call.args.batches, current_days + HorizonStep)
  /\ UNCHANGED << call, oracle, pc >>
  /\ UNCHANGED stage_vars
  /\ UNCHANGED max_vars

\* after the loop: None, or result with the two fields added to it
HorizonReturn ==
  /\ pc = "loop"
  /\ call.fn = "optimize_osd_schedule_with_total"
  /\ ~ KeepSearching(result, current_days)
  /\ IF result = None
     THEN /\ returned' = None
          /\ UNCHANGED result
     ELSE LET r == [total_days_needed  |-> total_days_needed(result[1]),
                    workdays_allocated |-> current_days] @@ result[1]
          IN  /\ result' = Some(r)
              /\ returned' = Some(r)
  /\ pc' = "done"
  /\ UNCHANGED << call, oracle, solution, solved, stage_calls, osd_calls >>
  /\ UNCHANGED horizon_vars
  /\ UNCHANGED max_vars

\* -------------------------------------------------------- optimize_max_batches
\* the initialisation before the loop
MaxBatchesInit ==
  /\ pc = "called"
  /\ call.fn = "optimize_max_batches"
  /\ lower_bound' = 1
  /\ upper_bound' = call.args.num_workdays * BatchesPerDayBound
  /\ max_feasible_result' = None
  /\ max_feasible_batches' = 0
  /\ iteration' = 0
  /\ pc' = "loop"
  /\ UNCHANGED << call, oracle, stage_calls, osd_calls, result, current_batches >>
  /\ UNCHANGED stage_vars
  /\ UNCHANGED horizon_vars

\* one pass of the while loop
MaxBatchesProbe ==
  /\ pc = "loop"
  /\ call.fn = "optimize_max_batches"
  /\ KeepProbing(lower_bound, upper_bound, iteration)
  /\ iteration' = iteration + 1
  /\ current_batches' = (lower_bound + upper_bound) \div 2
  /\ Probe(current_batches', call.args.num_workdays)
  /\ IF result' # None
     THEN /\ lower_bound' = FeasibleLower(current_batches')
          /\ max_feasible_result' = result'
          /\ max_feasible_batches' = current_batches'
          /\ UNCHANGED upper_bound
     ELSE /\ upper_bound' = InfeasibleUpper(current_batches')
          /\ UNCHANGED << lower_bound, max_feasible_result, max_feasible_batches >>
  /\ UNCHANGED << call, oracle, pc >>
  /\ UNCHANGED stage_vars
  /\ UNCHANGED horizon_vars

\* after the loop: None, or max_feasible_result with max_feasible_batches
\* added to it.  The key is set on the dict itself; when the last probe
\* succeeded, result names the same dict.
MaxBatchesReturn ==
  /\ pc = "loop"
  /\ call.fn = "optimize_max_batches"
  /\ ~ KeepProbing(lower_bound, upper_bound, iteration)
  /\ IF max_feasible_result = None
     THEN /\ returned' = None
          /\ UNCHANGED max_feasible_result
     ELSE LET r == [max_feasible_batches |-> max_feasible_batches]
                   @@ max_feasible_result[1]
          IN  /\ max_feasible_result' = Some(r)
              /\ returned' = Some(r)
  /\ result' = IF result # None THEN max_feasible_result' ELSE result
  /\ pc' = "done"
  /\ UNCHANGED << call, oracle, solution, solved, stage_calls, osd_calls,
                  lower_bound, upper_bound, iteration, current_batches,
                  max_feasible_batches >>
  /\ UNCHANGED horizon_vars

\* ------------------------------------------------------- specifications
\* the program: every entry point, the stage solves done by the solver
Next ==
  \/ DispensingCall
  \/ GranulationCall
  \/ TabletingCall
  \/ CoatingCall
  \/ OsdCall
  \/ HorizonFirst
  \/ HorizonRetry
  \/ HorizonReturn
  \/ MaxBatchesInit
  \/ MaxBatchesProbe
  \/ MaxBatchesReturn

Spec == Init /\ [][Next]_vars

\* the callers of the stage functions, against every answer of the stages
Never == HorizonCeiling + HorizonStep + MaxInitial + 1

DaysOracles(froms) ==
  {[kind |-> "days", stage |-> st, from |-> f] : st \in Stages, f \in froms}

FreeOracles == {[kind |-> "free", stage |-> st, from |-> 0] : st \in Stages}

InitAnyOsd ==
  \E d \in 1 .. MaxDays, orc \in DaysOracles(1 .. MaxDays + 1) :
     Called([fn |-> "optimize_osd_schedule",
             args |-> OsdArgs(SameDemand(1), d, AllOn)], orc)

\* a first horizon from which one more step of the search passes the ceiling,
\* and the first one that lies a whole step beyond it
LastStepInitial == HorizonCeiling - HorizonStep + 1
PastCeiling == HorizonCeiling + HorizonStep + 1

InitAnyHorizon ==
  \E d \in (1 .. MaxInitial) \cup {LastStepInitial, PastCeiling},
     orc \in DaysOracles((1 .. MaxFrom) \cup {Never}) :
     Called([fn |-> "optimize_osd_schedule_with_total",
             args |-> SearchArgs(1, d, AllOn)], orc)

InitAnyMax ==
  \E d \in (1 .. MaxProbeDays) \cup {MaxWorkdays}, orc \in FreeOracles :
     Called([fn |-> "optimize_max_batches",
             args |-> SearchArgs(0, d, AllOn)], orc)

UsedOracles(days) ==
  {[kind |-> "used", stage |-> st, from |-> f] : st \in Stages, f \in days}

\* Horizon Search over stages that use different numbers of days
InitUsedHorizon ==
  \E d \in 1 .. MaxInitial, orc \in UsedOracles(1 .. MaxInitial) :
     Called([fn |-> "optimize_osd_schedule_with_total",
             args |-> SearchArgs(1, d, AllOn)], orc)

SearchInit == InitAnyOsd \/ InitAnyHorizon \/ InitAnyMax \/ InitUsedHorizon

SearchNext ==
  \/ OsdCall
  \/ HorizonFirst
  \/ HorizonRetry
  \/ HorizonReturn
  \/ MaxBatchesInit
  \/ MaxBatchesProbe
  \/ MaxBatchesReturn

SearchSpec == SearchInit /\ [][SearchNext]_vars

\* The entry points are sequential, blocking Python functions: a function
\* that can take its next step takes it.
SearchLive == SearchSpec /\ WF_vars(SearchNext)

\* the stage solves, with one long horizon added
OnlyP3030 == [AllOn EXCEPT !.use_p3090i = FALSE, !.use_ima = FALSE]

InitLong ==
  Called([fn |-> "optimize_tableting",
          args |-> StageArgs(LongDays, LongDays, OnlyP3030)], SolverOracle)

\* two weeks with a demand that fits into the working days at the smallest
\* headcount, every machine enabled
FortnightBatches(stage) ==
  CASE stage = "dispensing"  -> 30
    [] stage = "granulation" -> 30
    [] stage = "tableting"   -> 20
    [] stage = "coating"     -> 20

InitFortnight ==
  \E st \in Stages :
     Called([fn   |-> StageFn(st),
             args |-> StageArgs(FortnightBatches(st), FortnightDays, AllOn)],
            SolverOracle)

StageInit == InitStage \/ InitLong \/ InitFortnight

StageNext ==
  \/ DispensingCall
  \/ GranulationCall
  \/ TabletingCall
  \/ CoatingCall

StageSpec == StageInit /\ [][StageNext]_vars

\* ================================================================ claims
StageFns == {StageFn(st) : st \in Stages}

StageOfCall == CHOOSE st \in Stages : StageFn(st) = call.fn

\* a stage function has returned a Stage Result
StageReturned == pc = "done" /\ call.fn \in StageFns /\ returned # None

\* ---------------------------------------------------------------------
\* C1: every Stage Result a stage function returns reports at least
\* batches_required produced batches; for Coating this holds for the
\* solution batches, for the coated batches and for final_batches_count.
C1_ProducedCoversDemand ==
  StageReturned =>
    LET r == returned[1]
        b == call.args.batches_required
    IN  IF call.fn = "optimize_coating"
        THEN /\ r.total_solution_produced >= b
             /\ r.total_coating_produced >= b
             /\ r.final_batches_count >= b
        ELSE r.total_batches_produced >= b

C1_Witness ==
  /\ StageReturned
  /\ call.fn = "optimize_coating"
  /\ call.args.batches_required >= 7
  /\ returned[1].final_batches_count >= call.args.batches_required

\* ---------------------------------------------------------------------
\* the capacity of one day as the pre-check counts it: three shifts of
\* every enabled resource; for Coating the smaller of the solution
\* capacity and the coating capacity
MaxDailyOutput(stage, tog) ==
  CASE stage = "tableting" ->
         3 * ((IF tog.use_p3030 THEN 1 ELSE 0) + (IF tog.use_p3090i THEN 2 ELSE 0)
              + (IF tog.use_ima THEN 1 ELSE 0))
    [] stage = "coating" ->
         Min2(12, 6 * ((IF tog.use_bosch THEN 1 ELSE 0)
                       + (IF tog.use_glatt THEN 1 ELSE 0)))
    [] OTHER -> 9

\* C2: a stage function whose stage has a resource enabled and whose
\* capacity pre-check passes (max_daily_output * num_workdays >=
\* batches_required) returns a Stage Result, not None.
C2_PassedPrecheckGivesResult ==
  (/\ pc = "done"
   /\ call.fn \in StageFns
   /\ MaxDailyOutput(StageOfCall, call.args.tog) > 0
   /\ MaxDailyOutput(StageOfCall, call.args.tog) * call.args.num_workdays
        >= call.args.batches_required)
  => returned # None

\* ---------------------------------------------------------------------
\* C3: in the schedule behind every returned Stage Result, the people of
\* all activations of one day (summed over the three shifts and over the
\* resources) do not exceed min_staff_required.
C3_DailyStaffWithinHeadcount ==
  StageReturned =>
    \A d \in 0 .. call.args.num_workdays - 1 :
       PeoplePerShift(StageOfCall) * Cardinality(solution[1].act[d])
         <= returned[1].min_staff_required

C3_Witness ==
  /\ StageReturned
  /\ \E d \in 0 .. call.args.num_workdays - 1 :
       /\ \E x \in solution[1].act[d], y \in solution[1].act[d] : x[2] # y[2]
       /\ PeoplePerShift(StageOfCall) * Cardinality(solution[1].act[d])
            = returned[1].min_staff_required

\* ---------------------------------------------------------------------
\* The smallest peak same-day staffing of any schedule that meets the
\* demand, computed from the capacity table alone.  With at most k
\* activations a day, a single-demand stage produces most by running the k
\* best (resource, shift) pairs every day.  Coating needs CeilDiv(b, 4)
\* Solution activations and CeilDiv(b, 2) machine activations in total; they
\* fit into d days of at most k activations exactly when each kind fits by
\* itself and both fit together.
RECURSIVE TopYield(_, _)
TopYield(slots, k) ==
  IF k = 0 \/ slots = {} THEN 0
  ELSE LET best == CHOOSE x \in slots :
                     \A y \in slots : BatchesPerShift(x[1]) >= BatchesPerShift(y[1])
       IN  BatchesPerShift(best[1]) + TopYield(slots \ {best}, k - 1)

PeakFeasible(stage, a, k) ==
  LET slots == Slots(stage, a.tog)
      b     == a.batches_required
      d     == a.num_workdays
  IN  IF stage # "coating"
      THEN d * TopYield(slots, k) >= b
      ELSE LET sol_slots == Cardinality({x \in slots : x[1] = "Solution"})
               mac_slots == Cardinality(slots) - sol_slots
           IN  /\ CeilDiv(b, 4) <= d * Min2(k, sol_slots)
               /\ CeilDiv(b, 2) <= d * Min2(k, mac_slots)
               /\ CeilDiv(b, 4) + CeilDiv(b, 2) <= d * Min2(k, sol_slots + mac_slots)

MinPeakActivations(stage, a) ==
  SetMin({k \in 0 .. Cardinality(Slots(stage, a.tog)) : PeakFeasible(stage, a, k)})

MinPeakStaff(stage, a) == PeoplePerShift(stage) * MinPeakActivations(stage, a)

\* the peak same-day staffing of the schedule the solver returned
PeakOfSolution ==
  SetMax({PeoplePerShift(StageOfCall) * Cardinality(solution[1].act[d]) :
            d \in 0 .. call.args.num_workdays - 1})

\* The horizon is so short that all penalties of a schedule at the smallest
\* peak, at most (w_night + w_weekend) per activation and w_daysUsed per
\* day, stay below the staff cost of one more active shift.
ShortHorizon(stage, a) ==
  a.num_workdays * (MinPeakActivations(stage, a) * (a.w.w_night + a.w.w_weekend)
                    + a.w.w_daysUsed)
    < a.w.w_staff * PeoplePerShift(stage)

\* C4 as stated: with the default weights min_staff_required of every
\* returned Stage Result is the smallest peak same-day staffing of any
\* schedule that meets the demand within num_workdays.
C4_MinStaffIsSmallestPeak ==
  (StageReturned /\ call.args.w = DefaultWeights) =>
    returned[1].min_staff_required = MinPeakStaff(StageOfCall, call.args)

\* C4 amended: with the default weights min_staff_required is the peak
\* same-day staffing of the returned schedule and never below the smallest
\* achievable peak; it equals the smallest achievable peak when the horizon
\* is short (ShortHorizon), and can exceed it on long horizons.
C4_MinStaffIsPeakOfOptimum ==
  (StageReturned /\ call.args.w = DefaultWeights) =>
    /\ returned[1].min_staff_required = PeakOfSolution
    /\ returned[1].min_staff_required >= MinPeakStaff(StageOfCall, call.args)
    /\ ShortHorizon(StageOfCall, call.args) =>
         returned[1].min_staff_required = MinPeakStaff(StageOfCall, call.args)

\* a long horizon on which the optimum staffs two shifts a day although one
\* shift a day meets the demand
C4_Witness ==
  /\ StageReturned
  /\ call.args.w = DefaultWeights
  /\ ~ ShortHorizon(StageOfCall, call.args)
  /\ returned[1].min_staff_required = PeakOfSolution
  /\ returned[1].min_staff_required > MinPeakStaff(StageOfCall, call.args)

\* ---------------------------------------------------------------------
\* what the latest Aggregator call returned to its caller
LatestOsdReturn ==
  IF call.fn = "optimize_osd_schedule" THEN returned ELSE result

\* C5: the Aggregator invokes the stage functions in the order Dispensing,
\* Granulation, Tableting, Coating; every stage before the last one invoked
\* returned a result; it returns None exactly when the last stage invoked
\* returned None, and a Combined Result only after all four stages returned
\* one.
C5_StagesInOrderFailFast ==
  stage_calls # << >> =>
    LET n == Len(stage_calls) IN
      /\ n <= 4
      /\ \A i \in 1 .. n :
           stage_calls[i].stage
             = << "dispensing", "granulation", "tableting", "coating" >>[i]
      /\ \A i \in 1 .. n - 1 : stage_calls[i].ok
      /\ (LatestOsdReturn = None) <=> ~ stage_calls[n].ok
      /\ LatestOsdReturn # None => n = 4

C5_Witness ==
  /\ call.fn = "optimize_osd_schedule"
  /\ pc = "done"
  /\ Len(stage_calls) = 3
  /\ ~ stage_calls[3].ok
  /\ returned = None

\* ---------------------------------------------------------------------
\* C6: optimize_max_batches with num_workdays = 1 and all machines enabled
\* returns a result whose max_feasible_batches is 9.
C6_SingleDayMaximumIsNine ==
  (/\ call.fn = "optimize_max_batches"
   /\ pc = "done"
   /\ call.args.num_workdays = 1
   /\ call.args.tog = AllOn)
  => (returned # None /\ returned[1].max_feasible_batches = 9)

\* ---------------------------------------------------------------------
HorizonSearch == call.fn = "optimize_osd_schedule_with_total"

\* C7: Horizon Search calls the Aggregator with total_batches on every
\* stage and the horizons initial_workdays, + 7, + 14, ... in this order;
\* every call before the latest one was infeasible (so a feasible first
\* horizon means a single call); it returns the result of the first call
\* that succeeds, with workdays_allocated the horizon of that call.
C7_FirstFeasibleOfSequence ==
  HorizonSearch =>
    LET n == Len(osd_calls) IN
      /\ \A i \in 1 .. n :
           /\ osd_calls[i].num_workdays = call.args.num_workdays + 7 * (i - 1)
           /\ osd_calls[i].batches = call.args.batches
      /\ \A i \in 1 .. n - 1 : ~ osd_calls[i].ok
      /\ pc = "done" =>
           /\ (returned # None) <=> osd_calls[n].ok
           /\ returned # None =>
                /\ returned = result
                /\ returned[1].workdays_allocated = osd_calls[n].num_workdays

C7_Witness ==
  /\ HorizonSearch
  /\ pc = "done"
  /\ returned # None
  /\ Len(osd_calls) = 3
  /\ returned[1].workdays_allocated = call.args.num_workdays + 14

\* ---------------------------------------------------------------------
\* whether the Aggregator succeeds with demand b on every stage and d days
OsdSucceeds(b, d) ==
  \E out \in optimize_osd_schedule(oracle, OsdArgs(SameDemand(b), d, call.args.tog)) :
     out.ret # None

C9_NoCallBeyondCeiling ==
  (HorizonSearch /\ call.args.num_workdays \in 1 .. 365) =>
    /\ \A i \in 1 .. Len(osd_calls) : osd_calls[i].num_workdays <= 365
    /\ (pc = "done" /\ returned # None) => returned[1].workdays_allocated <= 365

\* ---------------------------------------------------------------------
\* C10: whatever the Aggregator answers, the binary search makes one probe
\* per iteration and at most 50 of them; inside the loop lower_bound never
\* decreases and upper_bound never increases; the interval left after i
\* iterations holds at most (27 * num_workdays) / 2^i values, and the loop
\* ends with lower_bound > upper_bound.
C10_Interval ==
  call.fn = "optimize_max_batches" =>
    /\ iteration <= 50
    /\ Len(osd_calls) = iteration
    /\ pc # "called" =>
         (upper_bound - lower_bound + 1) * 2 ^ iteration
           <= 27 * call.args.num_workdays
    /\ pc = "done" => lower_bound > upper_bound

C10_BinarySearchTerminates ==
  [][ /\ C10_Interval'
      /\ (call.fn = "optimize_max_batches" /\ pc = "loop") =>
           (lower_bound' >= lower_bound /\ upper_bound' <= upper_bound)
    ]_vars

\* the longest search: 14 probes on 365 days
C10_Witness ==
  /\ call.fn = "optimize_max_batches"
  /\ call.args.num_workdays = 365
  /\ pc = "done"
  /\ iteration = 14
  /\ lower_bound > upper_bound

\* ---------------------------------------------------------------------
\* Horizon Search has made at most limit Aggregator calls, and once it has
\* returned, it returned None exactly when every call it made failed.
HorizonCalls(limit) ==
  HorizonSearch =>
    /\ Len(osd_calls) <= limit
    /\ pc = "done" =>
         ((returned = None) <=>
            \A i \in 1 .. Len(osd_calls) : ~ osd_calls[i].ok)

\* C11 as stated: for initial_workdays >= 1 Horizon Search makes at most
\* 1 + ceil((366 - initial_workdays) / 7) Aggregator calls and reports
\* failure exactly when every horizon it tried was infeasible.
C11_CallsWithinStatedLimit ==
  HorizonCalls(1 + CeilDiv(366 - call.args.num_workdays, 7))

\* C11 amended: Horizon Search always terminates; it makes at most
\* 1 + max(0, ceil((366 - initial_workdays) / 7)) Aggregator calls (the
\* first call is made whatever initial_workdays is) and reports failure
\* exactly when every horizon it tried was infeasible.
C11_HorizonSearchTerminates ==
  /\ [] HorizonCalls(1 + SetMax({0, CeilDiv(366 - call.args.num_workdays, 7)}))
  /\ HorizonSearch ~> (pc = "done")

\* the longest search: 54 failed calls from initial_workdays = 1, on a stage
\* that is infeasible on every horizon
C11_Witness ==
  /\ HorizonSearch
  /\ call.args.num_workdays = 1
  /\ pc = "done"
  /\ returned = None
  /\ Len(osd_calls) = 54
  /\ \A i \in 1 .. 54 : ~ osd_calls[i].ok

\* ---------------------------------------------------------------------
\* a stage function has returned
StageDone == pc = "done" /\ call.fn \in StageFns

\* the function returned None before it built a model or called the solver
ImmediateNone == returned = None /\ solution = None /\ ~ solved

\* C12: a stage solve with max_daily_output * num_workdays <
\* batches_required returns None immediately, without building a model and
\* without invoking the solver.  MaxDailyOutput is the capacity the code
\* tests; it is never above 3 * (sum of the per-shift yields of the enabled
\* resources), so every call the claim speaks of is covered.
C12_PrecheckFailsImmediately ==
  (/\ StageDone
   /\ MaxDailyOutput(StageOfCall, call.args.tog) * call.args.num_workdays
        < call.args.batches_required)
  => ImmediateNone

C12_Witness ==
  /\ StageDone
  /\ call.fn = "optimize_tableting"
  /\ MaxDailyOutput("tableting", call.args.tog) = 6
  /\ call.args.num_workdays = 1
  /\ call.args.batches_required = 7
  /\ ImmediateNone

\* ---------------------------------------------------------------------
AllDisabled ==
  \/ /\ call.fn = "optimize_tableting"
     /\ ~ call.args.tog.use_p3030
     /\ ~ call.args.tog.use_p3090i
     /\ ~ call.args.tog.use_ima
  \/ /\ call.fn = "optimize_coating"
     /\ ~ call.args.tog.use_bosch
     /\ ~ call.args.tog.use_glatt

\* C13: Tableting with its three presses disabled and Coating with both
\* coaters disabled return None for every batches_required >= 0 and
\* num_workdays >= 1, batches_required = 0 included (where the capacity
\* pre-check would pass), without building a model or invoking the solver.
C13_NoResourceFailsImmediately ==
  (StageDone /\ AllDisabled) => ImmediateNone

C13_Witness ==
  /\ StageDone
  /\ AllDisabled
  /\ call.fn = "optimize_tableting"
  /\ call.args.batches_required = 0
  /\ ImmediateNone

\* ---------------------------------------------------------------------
\* the keys of a Stage Result (all but pct_demand_completed)
CommonFields ==
  {"morning_shifts", "evening_shifts", "night_shifts", "min_staff_required",
   "staff_with_buffer", "days_used", "num_workdays_horizon", "solver_status"}

ResultFields(fn) ==
  CASE fn = "optimize_tableting" ->
         CommonFields \cup {"machines_used", "total_batches_produced"}
    [] fn = "optimize_coating" ->
         CommonFields \cup {"machines_used", "total_solution_produced",
                            "total_coating_produced", "final_batches_count"}
    [] OTHER -> CommonFields \cup {"total_batches_produced"}

\* C14: a stage solve ends with None or with a complete Stage Result whose
\* solver_status is 'Optimal'; a result is returned only after a solve, and
\* no result has a missing field or another status.
C14_ResultOrNone ==
  StageDone =>
    \/ returned = None /\ solution = None
    \/ /\ returned # None
       /\ solved
       /\ DOMAIN returned[1] = ResultFields(call.fn)
       /\ returned[1].solver_status = PyStr("Optimal")

C14_Witness ==
  /\ StageDone
  /\ call.fn = "optimize_granulation"
  /\ solved
  /\ returned # None
  /\ returned[1].solver_status = PyStr("Optimal")

\* ---------------------------------------------------------------------
HasResource == MaxDailyOutput(StageOfCall, call.args.tog) > 0

NoActivations(shifts) ==
  IF call.fn \in {"optimize_tableting", "optimize_coating"}
  THEN \A r \in DOMAIN shifts : shifts[r] = 0
  ELSE shifts = 0

\* C15: with a resource enabled and the default weights a stage solve with
\* batches_required = 0 returns a Stage Result with min_staff_required = 0,
\* days_used = 0 and no morning, evening or night activation.
C15_ZeroDemandIsFeasible ==
  (/\ StageDone
   /\ HasResource
   /\ call.args.w = DefaultWeights
   /\ call.args.batches_required = 0)
  => /\ returned # None
     /\ returned[1].min_staff_required = 0
     /\ returned[1].days_used = 0
     /\ NoActivations(returned[1].morning_shifts)
     /\ NoActivations(returned[1].evening_shifts)
     /\ NoActivations(returned[1].night_shifts)

\* the same for the stages other than Dispensing
C15_ExceptDispensing ==
  call.fn # "optimize_dispensing" => C15_ZeroDemandIsFeasible

\* ---------------------------------------------------------------------
\* the Stage Results the stage function of st can return to the Aggregator
\* call with arguments a
StageResults(a, st) ==
  {o.ret[1] : o \in {x \in StageSolve(oracle, st, StageCallArgs(a, st)) :
                       x.ret # None}}

\* C16: a Combined Result returned by optimize_osd_schedule holds, under the
\* keys dispensing, granulation, tableting and coating, the Stage Results
\* as the stage functions returned them, and the two sums of their
\* min_staff_required and staff_with_buffer values; it has no other key.
C16_CombinedResultSums ==
  (call.fn = "optimize_osd_schedule" /\ pc = "done" /\ returned # None) =>
    LET r == returned[1] IN
      /\ DOMAIN r = Stages \cup {"total_min_staff_summed",
                                  "total_staff_with_buffer_summed"}
      /\ \A st \in Stages : r[st] \in StageResults(call.args, st)
      /\ r.total_min_staff_summed
           = r.dispensing.min_staff_required + r.granulation.min_staff_required
             + r.tableting.min_staff_required + r.coating.min_staff_required
      /\ r.total_staff_with_buffer_summed
           = r.dispensing.staff_with_buffer + r.granulation.staff_with_buffer
             + r.tableting.staff_with_buffer + r.coating.staff_with_buffer

C16_Witness ==
  /\ call.fn = "optimize_osd_schedule"
  /\ pc = "done"
  /\ returned # None
  /\ Len(stage_calls) = 4
  /\ returned[1].total_min_staff_summed = 6 + 6 + 3 + 2

\* ---------------------------------------------------------------------
\* C17: total_days_needed of every successful Horizon Search is the largest
\* of days_used(Dispensing) + k for k in 0 .. 3, that is
\* days_used(Dispensing) + 3.
C17_TotalDaysIsDispensingPlusThree ==
  (HorizonSearch /\ pc = "done" /\ returned # None) =>
    LET disp == returned[1].dispensing.days_used IN
      /\ returned[1].total_days_needed = SetMax({disp + k : k \in 0 .. 3})
      /\ returned[1].total_days_needed = disp + 3

C17_Witness ==
  /\ HorizonSearch
  /\ pc = "done"
  /\ returned # None
  /\ returned[1].dispensing.days_used = 8
  /\ returned[1].total_days_needed = 11

StageFeasible(b, d) ==
  \E o \in StageSolve(oracle, StageOfCall,
                       [call.args EXCEPT !.batches_required = b,
                                         !.num_workdays = d]) :
     o.ret # None

\* the Aggregator call of this state
OsdDone == call.fn = "optimize_osd_schedule" /\ pc = "done"

OsdDemand == call.args.req["dispensing"]

C20_FeasibilityMonotoneInDays ==
  StageReturned =>
    \A d \in call.args.num_workdays + 1 .. MaxDays + 1 :
       StageFeasible(call.args.batches_required, d)

C20_Witness ==
  /\ StageReturned
  /\ call.fn = "optimize_tableting"
  /\ call.args.num_workdays = 1
  /\ call.args.batches_required = MaxBatches
  /\ StageFeasible(MaxBatches, 2)

\* ---------------------------------------------------------------------
\* C21: in every returned Stage Result staff_with_buffer is the exact
\* ceiling of min_staff_required * (1 + p / 100), p the buffer in whole
\* percent; with no buffer it is min_staff_required.
C21_BufferIsExactCeiling ==
  StageReturned =>
    /\ returned[1].staff_with_buffer
         = ExactStaffWithBuffer(returned[1].min_staff_required,
                                call.args.buffer_ratio)
    /\ call.args.buffer_ratio = 0 =>
         returned[1].staff_with_buffer = returned[1].min_staff_required

\* ten people and a buffer of 10 percent give eleven
C21_Witness ==
  /\ StageReturned
  /\ call.args.buffer_ratio = 10
  /\ returned[1].min_staff_required = 10
  /\ returned[1].staff_with_buffer = 11

\* ---------------------------------------------------------------------
\* C22: optimize_coating with 8 batches, 2 days, BOSCH enabled, GLATT
\* disabled and the default weights returns, for every optimal solution,
\* min_staff_required = 6, 8 solution batches, 8 coated batches,
\* final_batches_count = 8 and days_used = 2, with 2 Solution shifts and 4
\* BOSCH shifts, three activations on each day.
C22_CoatingExample ==
  (/\ pc = "done"
   /\ call.fn = "optimize_coating"
   /\ call.args.batches_required = 8
   /\ call.args.num_workdays = 2
   /\ call.args.tog.use_bosch
   /\ ~ call.args.tog.use_glatt
   /\ call.args.w = DefaultWeights)
  => /\ returned # None
     /\ LET r == returned[1]
            shifts(x) == r.morning_shifts[x] + r.evening_shifts[x]
                         + r.night_shifts[x]
        IN  /\ r.min_staff_required = 6
            /\ r.total_solution_produced = 8
            /\ r.total_coating_produced = 8
            /\ r.final_batches_count = 8
            /\ r.days_used = 2
            /\ shifts("Solution") = 2
            /\ shifts("BOSCH") = 4
            /\ shifts("GLATT") = 0
     /\ \A d \in 0 .. 1 : Cardinality(solution[1].act[d]) = 3

C22_Witness ==
  /\ pc = "done"
  /\ call.fn = "optimize_coating"
  /\ call.args.batches_required = 8
  /\ call.args.num_workdays = 2
  /\ call.args.tog.use_bosch
  /\ ~ call.args.tog.use_glatt
  /\ call.args.w = DefaultWeights
  /\ returned # None
  /\ returned[1].min_staff_required = 6
  /\ returned[1].final_batches_count = 8

\* ---------------------------------------------------------------------
\* the days of the returned schedule with at least one activation
ActiveDays ==
  {d \in 0 .. call.args.num_workdays - 1 : solution[1].act[d] # {}}

\* C23: in every returned Stage Result, whatever the non-negative weights,
\* days_used is the number of days with at least one activation.
C23_DaysUsedCountsActiveDays ==
  StageReturned => returned[1].days_used = Cardinality(ActiveDays)

\* the same for the calls that put a weight on the days used
C23_WithDayWeight ==
  (StageReturned /\ call.args.w.w_daysUsed > 0) =>
    returned[1].days_used = Cardinality(ActiveDays)

\* ---------------------------------------------------------------------
\* the weekend days as the claim states them
StatedWeekend(num_workdays) ==
  {d \in 0 .. num_workdays - 1 : d % 7 = 5 \/ d % 7 = 6}

\* C24: the weekend days of every stage model are the days d of the horizon
\* with d mod 7 in {5, 6}, for 14 days {5, 6, 12, 13}.  The objective of a
\* returned schedule charges w_weekend once for every activation on these
\* days and for no other, and the schedule shows it: with w_weekend > 0 no
\* weekend day carries more activations than a day that is not one, since
\* swapping the two days would lower the objective.
C24_WeekendDays ==
  /\ weekend_days(14) = {5, 6, 12, 13}
  /\ StageReturned =>
       LET m   == StageModel(StageOfCall, call.args)
           sol == solution[1]
           all == 0 .. m.D - 1
           wk  == StatedWeekend(m.D)
       IN  /\ weekend_days(m.D) = wk
           /\ WeightedObjective(m, sol)
                = m.w.w_staff * sol.staff
                  + SumF([d \in all |->
                            m.w.w_morning * Info(m, sol.act[d]).M
                            + m.w.w_evening * Info(m, sol.act[d]).E
                            + m.w.w_night * Info(m, sol.act[d]).N], all)
                  + m.w.w_weekend
                      * SumF([d \in wk |-> Cardinality(sol.act[d])], wk)
                  + m.w.w_daysUsed * SumF(sol.dayUsed, all)
           /\ m.w.w_weekend > 0 =>
                \A d \in wk, e \in all \ wk :
                   Cardinality(sol.act[d]) <= Cardinality(sol.act[e])

\* two weeks in which the schedule works on working days only
C24_Witness ==
  /\ StageReturned
  /\ call.fn = "optimize_coating"
  /\ call.args.num_workdays = 14
  /\ ActiveDays # {}
  /\ ActiveDays \cap {5, 6, 12, 13} = {}

\* ---------------------------------------------------------------------
\* C25: in every feasible solution of a stage model the day-used indicator
\* of a day is 1 whenever an activation variable of that day is 1: no value
\* of the indicator but 1 satisfies the linking constraint of a day with an
\* activation, for the toggles of the call, and every returned schedule has
\* the indicator at 1 on each of its active days.
C25_DayUsedForced ==
  /\ (pc = "called" /\ call.fn \in StageFns) =>
       LET m == StageModel(StageOfCall, call.args)
       IN  \A p \in SUBSET Slots(m.stage, m.tog), u \in {0, 1} :
              (p # {} /\ DayUsedLink(m, Info(m, p), u)) => u = 1
  /\ (pc = "done" /\ call.fn \in StageFns /\ solution # None) =>
       /\ IsFeasible(StageModel(StageOfCall, call.args), solution[1])
       /\ \A d \in ActiveDays : solution[1].dayUsed[d] = 1

\* Tableting with one machine, three activation variables a day, returns a
\* schedule with a single activation on a day
C25_Witness ==
  /\ StageReturned
  /\ call.fn = "optimize_tableting"
  /\ Cardinality(Slots("tableting", call.args.tog)) < 9
  /\ \E d \in ActiveDays : Cardinality(solution[1].act[d]) = 1

\* ---------------------------------------------------------------------
\* the enabled coating machines of the call
CoatersEnabled ==
  (IF call.args.tog.use_bosch THEN 1 ELSE 0)
  + (IF call.args.tog.use_glatt THEN 1 ELSE 0)

\* C26: the two demands of Coating are not pooled: the solution batches (4
\* per active Solution shift) and the coated batches (2 per active machine
\* shift) each reach batches_required in the returned schedule.  With a
\* coating machine enabled optimize_coating returns a Stage Result exactly
\* when min(12, 6 * enabled machines) * num_workdays >= batches_required.
C26_CoatingDemandsApart ==
  (pc = "done" /\ call.fn = "optimize_coating" /\ CoatersEnabled >= 1) =>
    LET a == call.args
        D == 0 .. a.num_workdays - 1
    IN  /\ returned # None
             <=> Min2(12, 6 * CoatersEnabled) * a.num_workdays
                   >= a.batches_required
        /\ returned # None =>
             LET act == solution[1].act
             IN  /\ 4 * SumF([d \in D |->
                         Cardinality({x \in act[d] : x[1] = "Solution"})], D)
                      >= a.batches_required
                 /\ 2 * SumF([d \in D |->
                         Cardinality({x \in act[d] : x[1] \in {"BOSCH", "GLATT"}})], D)
                      >= a.batches_required
                 /\ returned[1].total_solution_produced >= a.batches_required
                 /\ returned[1].total_coating_produced >= a.batches_required

\* one coating machine, a demand the Solution shifts and the machine shifts
\* of one day could only meet together
C26_Witness ==
  /\ pc = "done"
  /\ call.fn = "optimize_coating"
  /\ CoatersEnabled = 1
  /\ returned # None
  /\ call.args.batches_required = 6 * call.args.num_workdays

\* the same call with one batch more is refused
C26_WitnessRefused ==
  /\ pc = "done"
  /\ call.fn = "optimize_coating"
  /\ CoatersEnabled = 1
  /\ returned = None
  /\ call.args.batches_required = 6 * call.args.num_workdays + 1

\* ---------------------------------------------------------------------
\* C27: for identical inputs optimize_dispensing and optimize_granulation
\* agree on the outcome: seen from a finished optimize_granulation call,
\* optimize_dispensing on the same arguments returns None exactly when
\* Granulation did, and otherwise a Stage Result with the same
\* min_staff_required, staff_with_buffer and total_batches_produced.
C27_DispensingAgreesWithGranulation ==
  (pc = "done" /\ call.fn = "optimize_granulation") =>
    \A o \in optimize_dispensing(call.args) :
       /\ o.ret = None <=> returned = None
       /\ (o.ret # None /\ returned # None) =>
            /\ o.ret[1].min_staff_required = returned[1].min_staff_required
            /\ o.ret[1].staff_with_buffer = returned[1].staff_with_buffer
            /\ o.ret[1].total_batches_produced
                 = returned[1].total_batches_produced

\* the two agree wherever the capacity pre-check refuses the demand
C27_AgreeWhenRefused ==
  (/\ pc = "done"
   /\ call.fn = "optimize_granulation"
   /\ 9 * call.args.num_workdays < call.args.batches_required) =>
    /\ returned = None
    /\ \A o \in optimize_dispensing(call.args) : o.ret = None

\* ---------------------------------------------------------------------
\* the probes of the Throughput Search so far that were feasible
FeasibleProbes == {i \in 1 .. Len(osd_calls) : osd_calls[i].ok}

\* C28: Throughput Search, whatever the stages answer: every feasible probe
\* has a larger batch count than the feasible probes before it and
\* max_feasible_batches is the count of the latest one (0 before the first);
\* after a feasible probe lower_bound = max_feasible_batches + 1; the search
\* returns None when no probe was feasible, and otherwise the Combined
\* Result of the Aggregator call with demand max_feasible_batches, the
\* largest feasible count probed, with that count added to it.
C28_ThroughputSearchKeepsBest ==
  (call.fn = "optimize_max_batches" /\ pc \in {"loop", "done"}) =>
    LET feas == FeasibleProbes
        best == SetMax({0} \cup {osd_calls[i].batches : i \in feas})
    IN  /\ \A i \in feas, j \in feas :
             i < j => osd_calls[i].batches < osd_calls[j].batches
        /\ max_feasible_batches = best
        /\ feas # {} => lower_bound = max_feasible_batches + 1
        /\ feas = {} <=> max_feasible_result = None
        /\ pc = "done" =>
             IF feas = {}
             THEN returned = None
             ELSE /\ returned # None
                  /\ returned[1].max_feasible_batches = best
                  /\ \E out \in optimize_osd_schedule(oracle,
                               OsdArgs(SameDemand(best), call.args.num_workdays,
                                       call.args.tog)) :
                        /\ out.ret # None
                        /\ returned[1]
                             = [max_feasible_batches |-> best] @@ out.ret[1]

\* a search that returned after feasible probes on both sides of an
\* infeasible one
C28_Witness ==
  /\ call.fn = "optimize_max_batches"
  /\ pc = "done"
  /\ returned # None
  /\ \E i \in FeasibleProbes, j \in 1 .. Len(osd_calls), k \in FeasibleProbes :
        i < j /\ j < k /\ ~ osd_calls[j].ok

C29_CoversDispensing ==
  (HorizonSearch /\ pc = "done" /\ returned # None) =>
    returned[1].total_days_needed >= returned[1].dispensing.days_used + 3

\* ---------------------------------------------------------------------
\* the call has a buffer or weights other than the default ones
OtherBufferOrWeights ==
  call.args.buffer_ratio # 0 \/ call.args.w # DefaultWeights

\* the stage function of the call returns a result for the same
\* batches_required, num_workdays and toggles with no buffer and the default
\* weights
StageFeasibleByDefault ==
  \E o \in StageSolve(oracle, StageOfCall,
                       StageArgs(call.args.batches_required,
                                 call.args.num_workdays, call.args.tog)) :
     o.ret # None

\* C30: whether a stage function, the Aggregator or a probe of a search
\* returns a result does not depend on buffer_ratio or on the weights: a
\* call with a buffer or with other weights has the outcome of the call with
\* the same batches, days and toggles, no buffer and the default weights.
\* The searches see nothing of a probe but this outcome, so they return the
\* same workdays_allocated and max_feasible_batches.
C30_FeasibilityIgnoresBufferAndWeights ==
  /\ (StageDone /\ OtherBufferOrWeights) =>
       (returned # None <=> StageFeasibleByDefault)
  /\ (OsdDone /\ OtherBufferOrWeights) =>
       (returned # None <=> OsdSucceeds(OsdDemand, call.args.num_workdays))
  /\ (/\ call.fn \in {"optimize_osd_schedule_with_total", "optimize_max_batches"}
      /\ OtherBufferOrWeights) =>
       \A i \in 1 .. Len(osd_calls) :
          osd_calls[i].ok
            <=> OsdSucceeds(osd_calls[i].batches, osd_calls[i].num_workdays)

\* Granulation with a buffer of 30 percent returns a result for the nine
\* batches one day can yield
C30_Witness ==
  /\ StageReturned
  /\ call.fn = "optimize_granulation"
  /\ call.args.buffer_ratio = MaxBufferPercent
  /\ call.args.batches_required = 9 * call.args.num_workdays
  /\ StageFeasibleByDefault

====
